---------------------------- MODULE Spec2Model ----------------------------
(***************************************************************************)
(* A model of pbl.c (peterGraf/pbl): the variable length integer codec     *)
(* pbl_LongToVarBuf / pbl_VarBufToLong / pbl_LongSize / pbl_VarBufSize and *)
(* the buffer primitives pbl_memcmp / pbl_memcmplen.                       *)
(*                                                                         *)
(* TLC's integers are 32 bit signed, the program's "unsigned long" values  *)
(* reach 2^32-1 and its size_t lengths go beyond that, so such a quantity  *)
(* is kept as two halves, [hi, lo] standing for hi * 2^16 + lo with        *)
(* 0 <= lo < 2^16.  C's "int" values fit TLC's integers and are kept as    *)
(* such; every operation on them that could leave the int range is done on *)
(* the halves.                                                             *)
(***************************************************************************)
EXTENDS Integers, Sequences, FiniteSets

VARIABLES
    buffer,   \* the codec's caller-owned buffer, index -> byte
    enc,      \* the last pbl_LongToVarBuf call on buffer
    dec,      \* the last pbl_VarBufToLong call on buffer
    peek,     \* the last pbl_VarBufSize call on buffer
    size,     \* the last pbl_LongSize call
    psize,    \* the pbl_LongSize call before that one
    stream,   \* a buffer values are written to back to back
    woff,     \* the write offset into stream
    written,  \* the values written to stream, in order
    roff,     \* the read offset into stream
    decoded,  \* what the reader got per value: the value, or Skipped
    left,     \* first buffer of a comparison
    right,    \* second buffer of a comparison
    cmp,      \* outcome of pbl_memcmp(left, right)
    rcmp,     \* outcome of pbl_memcmp(right, left)
    cmplen    \* outcome of pbl_memcmplen(left, right)

vars == <<buffer, enc, dec, peek, size, psize, stream, woff, written, roff,
          decoded, left, right, cmp, rcmp, cmplen>>
codecVars == <<buffer, enc, dec, peek>>
sizeVars == <<size, psize>>
streamVars == <<stream, woff, written, roff, decoded>>
cmpVars == <<left, right, cmp, rcmp, cmplen>>

---------------------------------------------------------------------------
(* Two-half numbers and bit operations.                                    *)

Half == 256 * 256
Byte == 0 .. 255

W(hi, lo) == [hi |-> hi, lo |-> lo]

\* A non-negative int as a two-half number (an int converted to unsigned long).
WOf(n) == W(n \div Half, n % Half)

WLe(a, b) == a.hi < b.hi \/ (a.hi = b.hi /\ a.lo <= b.lo)
WLt(a, b) == a.hi < b.hi \/ (a.hi = b.hi /\ a.lo < b.lo)
WIsZero(a) == a.hi = 0 /\ a.lo = 0

\* w + d for a small int d of either sign.
WAddInt(w, d) == W(w.hi + ((w.lo + d) \div Half), (w.lo + d) % Half)

RECURSIVE BitAnd(_, _)
BitAnd(a, b) ==
    IF a = 0 \/ b = 0 THEN 0
    ELSE (a % 2) * (b % 2) + 2 * BitAnd(a \div 2, b \div 2)

RECURSIVE BitOr(_, _)
BitOr(a, b) ==
    IF a = 0 THEN b
    ELSE IF b = 0 THEN a
    ELSE (IF a % 2 = 1 \/ b % 2 = 1 THEN 1 ELSE 0)
         + 2 * BitOr(a \div 2, b \div 2)

RECURSIVE Pow2(_)
Pow2(n) == IF n = 0 THEN 1 ELSE 2 * Pow2(n - 1)

\* value >> s on an unsigned long, 0 <= s < 32.
Shr(v, s) ==
    IF s >= 16 THEN W(0, v.hi \div Pow2(s - 16))
    ELSE W(v.hi \div Pow2(s),
           (v.hi % Pow2(s)) * Pow2(16 - s) + (v.lo \div Pow2(s)))

\* (unsigned long)b << s for a byte b and s in {0, 8, 16, 24}.
ShlByte(b, s) ==
    IF s >= 16 THEN W(b * Pow2(s - 16), 0) ELSE W(0, b * Pow2(s))

\* x | y on unsigned longs.
WOr(x, y) == W(BitOr(x.hi, y.hi), BitOr(x.lo, y.lo))

\* (unsigned char)x: the low eight bits.
UChar(x) == x.lo % 256

---------------------------------------------------------------------------
(* The codec, pbl.c lines 350-519.  A buffer is a function from index to   *)
(* byte; a call gets the buffer and the offset its pointer argument points *)
(* at.  An encoder call yields its return value and the stores it makes,   *)
(* in program order, as <<index relative to the pointer, byte>>; a decoder *)
(* call yields its results and the set of relative indices it loads.       *)

Store(buf, off, stores) ==
    [i \in DOMAIN buf |->
        LET hits == {k \in 1 .. Len(stores) : off + stores[k][1] = i}
        IN  IF hits = {} THEN buf[i]
            ELSE stores[CHOOSE k \in hits : \A j \in hits : j <= k][2]]

StoredAt(stores) == {stores[k][1] : k \in 1 .. Len(stores)}

\* pbl_LongToVarBuf with a slip: the 4 byte case also clears buffer[4].
LongToVarBuf_Pad(value) ==
    IF WLe(value, W(0, 127))
    THEN [rc |-> 1, stores |-> << <<0, UChar(value)>> >>]
    ELSE IF WLe(value, W(0, 16383))
    THEN [rc |-> 2,
          stores |-> << <<0, UChar(WOr(Shr(value, 8), W(0, 128)))>>,
                        <<1, UChar(value)>> >>]
    ELSE IF WLe(value, W(31, 65535))
    THEN [rc |-> 3,
          stores |-> << <<0, UChar(WOr(Shr(value, 16), W(0, 128 + 64)))>>,
                        <<1, UChar(Shr(value, 8))>>,
                        <<2, UChar(value)>> >>]
    ELSE IF WLe(value, W(4095, 65535))
    THEN [rc |-> 4,
          stores |-> << <<0, UChar(WOr(Shr(value, 24), W(0, 128 + 64 + 32)))>>,
                        <<1, UChar(Shr(value, 16))>>,
                        <<2, UChar(Shr(value, 8))>>,
                        <<3, UChar(value)>>,
                        <<4, 0>> >>]
    ELSE [rc |-> 5,
          stores |-> << <<0, 240>>,
                        <<1, UChar(Shr(value, 24))>>,
                        <<2, UChar(Shr(value, 16))>>,
                        <<3, UChar(Shr(value, 8))>>,
                        <<4, UChar(value)>> >>]

\* pbl_LongToVarBuf with a slip: the 5 byte tag is (value >> 24) | 0xf0.
LongToVarBuf_Bug(value) ==
    IF WLe(value, W(0, 127))
    THEN [rc |-> 1, stores |-> << <<0, UChar(value)>> >>]
    ELSE IF WLe(value, W(0, 16383))
    THEN [rc |-> 2,
          stores |-> << <<0, UChar(WOr(Shr(value, 8), W(0, 128)))>>,
                        <<1, UChar(value)>> >>]
    ELSE IF WLe(value, W(31, 65535))
    THEN [rc |-> 3,
          stores |-> << <<0, UChar(WOr(Shr(value, 16), W(0, 128 + 64)))>>,
                        <<1, UChar(Shr(value, 8))>>,
                        <<2, UChar(value)>> >>]
    ELSE IF WLe(value, W(4095, 65535))
    THEN [rc |-> 4,
          stores |-> << <<0, UChar(WOr(Shr(value, 24), W(0, 128 + 64 + 32)))>>,
                        <<1, UChar(Shr(value, 16))>>,
                        <<2, UChar(Shr(value, 8))>>,
                        <<3, UChar(value)>> >>]
    ELSE [rc |-> 5,
          stores |-> << <<0, UChar(WOr(Shr(value, 24), W(0, 240)))>>,
                        <<1, UChar(Shr(value, 24))>>,
                        <<2, UChar(Shr(value, 16))>>,
                        <<3, UChar(Shr(value, 8))>>,
                        <<4, UChar(value)>> >>]

\* pbl_LongToVarBuf(buffer, value), lines 384-418.
pbl_LongToVarBuf(value) ==
    IF WLe(value, W(0, 127))                                  \* <= 0x7f
    THEN [rc |-> 1, stores |-> << <<0, UChar(value)>> >>]
    ELSE IF WLe(value, W(0, 16383))                           \* <= 0x3fff
    THEN [rc |-> 2,
          stores |-> << <<0, UChar(WOr(Shr(value, 8), W(0, 128)))>>,
                        <<1, UChar(value)>> >>]
    ELSE IF WLe(value, W(31, 65535))                          \* <= 0x1fffff
    THEN [rc |-> 3,
          stores |-> << <<0, UChar(WOr(Shr(value, 16), W(0, 128 + 64)))>>,
                        <<1, UChar(Shr(value, 8))>>,
                        <<2, UChar(value)>> >>]
    ELSE IF WLe(value, W(4095, 65535))                        \* <= 0x0fffffff
    THEN [rc |-> 4,
          stores |-> << <<0, UChar(WOr(Shr(value, 24), W(0, 128 + 64 + 32)))>>,
                        <<1, UChar(Shr(value, 16))>>,
                        <<2, UChar(Shr(value, 8))>>,
                        <<3, UChar(value)>> >>]
    ELSE [rc |-> 5,
          stores |-> << <<0, 240>>,                           \* 0xf0
                        <<1, UChar(Shr(value, 24))>>,
                        <<2, UChar(Shr(value, 16))>>,
                        <<3, UChar(Shr(value, 8))>>,
                        <<4, UChar(value)>> >>]

\* pbl_BufToLong(buf), lines 369-377.  The unsigned long it computes is below
\* 2^32; returned as long and stored to an unsigned long it is that value
\* again, whether long has 32 or 64 bits.
pbl_BufToLong(buf, off) ==
    [value |-> WOr(WOr(ShlByte(buf[off], 24), ShlByte(buf[off + 1], 16)),
                   WOr(ShlByte(buf[off + 2], 8), ShlByte(buf[off + 3], 0))),
     loads |-> {0, 1, 2, 3}]

\* pbl_VarBufToLong with a slip: the 2 byte case does not mask the tag bits.
VarBufToLong_Bug(buf, off) ==
    LET c == BitAnd(255, buf[off])
    IN  IF BitAnd(c, 128) = 0
        THEN [rc |-> 1, value |-> WOf(c), loads |-> {0}, stores |-> <<>>]
        ELSE IF BitAnd(c, 64) = 0
        THEN [rc |-> 2,
              value |-> WOf(c * 256 + BitAnd(buf[off + 1], 255)),
              loads |-> {0, 1}, stores |-> <<>>]
        ELSE IF BitAnd(c, 32) = 0
        THEN [rc |-> 3,
              value |-> WOf(BitAnd(c, 31) * 65536
                            + BitAnd(buf[off + 1], 255) * 256
                            + BitAnd(buf[off + 2], 255)),
              loads |-> {0, 1, 2}, stores |-> <<>>]
        ELSE IF BitAnd(c, 16) = 0
        THEN [rc |-> 4,
              value |-> WOf(BitAnd(c, 15) * 16777216
                            + BitAnd(buf[off + 1], 255) * 65536
                            + BitAnd(buf[off + 2], 255) * 256
                            + BitAnd(buf[off + 3], 255)),
              loads |-> {0, 1, 2, 3}, stores |-> <<>>]
        ELSE LET r == pbl_BufToLong(buf, off + 1)
             IN  [rc |-> 5, value |-> r.value,
                  loads |-> {0} \cup {1 + i : i \in r.loads}, stores |-> <<>>]

\* pbl_VarBufToLong(buffer, value), lines 425-461.  The int "val" stays below
\* 2^28; *value gets it converted to unsigned long.
pbl_VarBufToLong(buf, off) ==
    LET c == BitAnd(255, buf[off])
    IN  IF BitAnd(c, 128) = 0                                 \* !(c & 0x80)
        THEN [rc |-> 1, value |-> WOf(c), loads |-> {0}, stores |-> <<>>]
        ELSE IF BitAnd(c, 64) = 0                             \* !(c & 0x40)
        THEN [rc |-> 2,
              value |-> WOf(BitAnd(c, 63) * 256 + BitAnd(buf[off + 1], 255)),
              loads |-> {0, 1}, stores |-> <<>>]
        ELSE IF BitAnd(c, 32) = 0                             \* !(c & 0x20)
        THEN [rc |-> 3,
              value |-> WOf(BitAnd(c, 31) * 65536
                            + BitAnd(buf[off + 1], 255) * 256
                            + BitAnd(buf[off + 2], 255)),
              loads |-> {0, 1, 2}, stores |-> <<>>]
        ELSE IF BitAnd(c, 16) = 0                             \* !(c & 0x10)
        THEN [rc |-> 4,
              value |-> WOf(BitAnd(c, 15) * 16777216
                            + BitAnd(buf[off + 1], 255) * 65536
                            + BitAnd(buf[off + 2], 255) * 256
                            + BitAnd(buf[off + 3], 255)),
              loads |-> {0, 1, 2, 3}, stores |-> <<>>]
        ELSE LET r == pbl_BufToLong(buf, off + 1)
             IN  [rc |-> 5, value |-> r.value,
                  loads |-> {0} \cup {1 + i : i \in r.loads}, stores |-> <<>>]

\* pbl_LongSize with a slip: value < 0x7f for value <= 0x7f.
LongSize_Bug(value) ==
    IF WLt(value, W(0, 127)) THEN 1
    ELSE IF WLe(value, W(0, 16383)) THEN 2
    ELSE IF WLe(value, W(31, 65535)) THEN 3
    ELSE IF WLe(value, W(4095, 65535)) THEN 4
    ELSE 5

\* pbl_LongSize(value), lines 468-489.
pbl_LongSize(value) ==
    IF WLe(value, W(0, 127)) THEN 1
    ELSE IF WLe(value, W(0, 16383)) THEN 2
    ELSE IF WLe(value, W(31, 65535)) THEN 3
    ELSE IF WLe(value, W(4095, 65535)) THEN 4
    ELSE 5

\* pbl_VarBufSize with a slip: the test of 0x10 is missing.
VarBufSize_Bug(buf, off) ==
    LET c == BitAnd(255, buf[off])
    IN  [rc |-> IF BitAnd(c, 128) = 0 THEN 1
                ELSE IF BitAnd(c, 64) = 0 THEN 2
                ELSE IF BitAnd(c, 32) = 0 THEN 3
                ELSE 5,
         loads |-> {0}]

\* pbl_VarBufSize(buffer), lines 496-519.
pbl_VarBufSize(buf, off) ==
    LET c == BitAnd(255, buf[off])
    IN  [rc |-> IF BitAnd(c, 128) = 0 THEN 1
                ELSE IF BitAnd(c, 64) = 0 THEN 2
                ELSE IF BitAnd(c, 32) = 0 THEN 3
                ELSE IF BitAnd(c, 16) = 0 THEN 4
                ELSE 5,
         loads |-> {0}]

---------------------------------------------------------------------------
(* Inputs.                                                                 *)

Spread == 1
BufSlack == 1
MaxVals == 3
MaxHead == 2

\* The largest value of each width class, 0x7f .. 0xffffffff, and 0.
Breaks ==
    {W(0, 0), W(0, 127), W(0, 16383), W(31, 65535), W(4095, 65535),
     W(65535, 65535)}

IsLong32(w) == w.hi \in 0 .. Half - 1 /\ w.lo \in 0 .. Half - 1

\* The values around every breakpoint, and some inside the classes:
\* 300, 0x12345, 0x1234567, 0x80000000, 0xdeadbeef.
Values ==
    {w \in {WAddInt(b, d) : b \in Breaks, d \in (0 - Spread) .. (Spread + 1)} :
        IsLong32(w)}
    \cup {W(0, 300), W(1, 9029), W(291, 17767), W(32768, 0), W(57005, 48879)}

BufLen == 5 + BufSlack
FillBytes == {0, 255}

NoEnc == [done |-> FALSE, value |-> W(0, 0), rc |-> 0, stored |-> {},
          pre |-> <<>>]
NoDec == [done |-> FALSE, value |-> W(0, 0), rc |-> 0, loaded |-> {}]
NoPeek == [done |-> FALSE, rc |-> 0, loaded |-> {}]
NoSize == [done |-> FALSE, value |-> W(0, 0), rc |-> 0]

---------------------------------------------------------------------------
(* A caller of the codec on one buffer.                                    *)

\* rc = pbl_LongToVarBuf(buffer, v)
Encode(v) ==
    /\ ~enc.done
    /\ LET r == pbl_LongToVarBuf(v)
       IN  /\ buffer' = Store(buffer, 0, r.stores)
           /\ enc' = [done |-> TRUE, value |-> v, rc |-> r.rc,
                      stored |-> StoredAt(r.stores), pre |-> buffer]
    /\ dec' = NoDec
    /\ peek' = NoPeek
    /\ size' = NoSize
    /\ UNCHANGED <<psize, streamVars, cmpVars>>

\* rc = pbl_VarBufToLong(buffer, &out)
Decode ==
    /\ LET r == pbl_VarBufToLong(buffer, 0)
       IN  /\ buffer' = Store(buffer, 0, r.stores)
           /\ dec' = [done |-> TRUE, value |-> r.value, rc |-> r.rc,
                      loaded |-> r.loads]
    /\ UNCHANGED <<enc, peek, size, psize, streamVars, cmpVars>>

\* rc = pbl_VarBufSize(buffer)
Peek ==
    /\ LET r == pbl_VarBufSize(buffer, 0)
       IN  peek' = [done |-> TRUE, rc |-> r.rc, loaded |-> r.loads]
    /\ UNCHANGED <<buffer, enc, dec, size, psize, streamVars, cmpVars>>

\* rc = pbl_LongSize(v) for the value the buffer was encoded from
SizeOfEncoded ==
    /\ enc.done
    /\ size' = [done |-> TRUE, value |-> enc.value,
                rc |-> pbl_LongSize(enc.value)]
    /\ UNCHANGED <<buffer, enc, dec, peek, psize, streamVars, cmpVars>>

\* rc = pbl_LongSize(v), keeping the call before it
Size(v) ==
    /\ psize' = size
    /\ size' = [done |-> TRUE, value |-> v, rc |-> pbl_LongSize(v)]
    /\ UNCHANGED <<codecVars, streamVars, cmpVars>>

---------------------------------------------------------------------------
(* A writer and a reader of one buffer holding values back to back.        *)

StreamCap == 5 * MaxVals

\* The smallest and the largest value of every width class.
StreamValues ==
    {W(0, 0), W(0, 127), W(0, 128), W(0, 16383), W(0, 16384), W(31, 65535),
     W(32, 0), W(4095, 65535), W(4096, 0), W(65535, 65535)}

Skipped == [skipped |-> TRUE, value |-> W(0, 0)]
Got(v) == [skipped |-> FALSE, value |-> v]

\* woff += pbl_LongToVarBuf(stream + woff, v); the caller keeps 5 bytes free.
StreamWrite(v) ==
    /\ Len(written) < MaxVals
    /\ woff + 5 <= StreamCap
    /\ LET r == pbl_LongToVarBuf(v)
       IN  /\ stream' = Store(stream, woff, r.stores)
           /\ woff' = woff + r.rc
    /\ written' = Append(written, v)
    /\ UNCHANGED <<roff, decoded, codecVars, sizeVars, cmpVars>>

\* roff += pbl_VarBufToLong(stream + roff, &out)
StreamRead ==
    /\ roff < woff
    /\ LET r == pbl_VarBufToLong(stream, roff)
       IN  /\ stream' = Store(stream, roff, r.stores)
           /\ roff' = roff + r.rc
           /\ decoded' = Append(decoded, Got(r.value))
    /\ UNCHANGED <<woff, written, codecVars, sizeVars, cmpVars>>

\* roff += pbl_VarBufSize(stream + roff)
StreamSkip ==
    /\ roff < woff
    /\ LET r == pbl_VarBufSize(stream, roff)
       IN  /\ roff' = roff + r.rc
           /\ decoded' = Append(decoded, Skipped)
    /\ UNCHANGED <<stream, woff, written, codecVars, sizeVars, cmpVars>>

---------------------------------------------------------------------------
(* pbl_memcmplen and pbl_memcmp, lines 217-307.                            *)
(*                                                                         *)
(* A buffer is [head, tail]: the bytes of the sequence head followed by    *)
(* tail zero bytes, tail a two-half number, so that buffers longer than    *)
(* INT_MAX and UINT_MAX bytes can be stated.  Two buffers can differ only  *)
(* at the indices of their heads; a scan of them is run byte by byte over  *)
(* those indices and, finding no difference there, has found none.         *)
(* size_t has 64 bits and int and unsigned int 32, as on LP64 and LLP64.   *)
(* A call yields the set of its possible outcomes [ok, kind, rc].  Where    *)
(* the code fixes the int it returns the outcome is that value.  Where it  *)
(* does not (the magnitude libc's memcmp chooses, the counter of a scan    *)
(* that ran off the buffers) the outcome stands for every int the call can *)
(* return there: every int of one sign, or every int.  ok = FALSE is a     *)
(* call that does not return normally.                                     *)

BufLength(b) == WAddInt(b.tail, Len(b.head))
ByteAt(b, i) == IF i < Len(b.head) THEN b.head[i + 1] ELSE 0
HeadSpan(l, r) == IF Len(l.head) >= Len(r.head) THEN Len(l.head) ELSE Len(r.head)

\* The number of leading indices a scan of n bytes has to look at one by one.
ScanLimit(l, r, n) ==
    IF WLt(n, WOf(HeadSpan(l, r))) THEN n.lo ELSE HeadSpan(l, r)

\* The first index in i .. n-1 where the buffers differ, n if there is none.
RECURSIVE FirstDiff(_, _, _, _)
FirstDiff(l, r, i, n) ==
    IF i >= n THEN n
    ELSE IF ByteAt(l, i) # ByteAt(r, i) THEN i
    ELSE FirstDiff(l, r, i + 1, n)

\* The call returns rc.
Ret(rc) == [ok |-> TRUE, kind |-> "value", rc |-> rc]
\* The call returns some int of the sign sgn (-1 or 1), whichever.
RetSign(sgn) == [ok |-> TRUE, kind |-> "sign", rc |-> sgn]
\* The call returns some int, whichever.
RetAny == [ok |-> TRUE, kind |-> "any", rc |-> 0]
\* The call does not return.
NoReturn == [ok |-> FALSE, kind |-> "none", rc |-> 0]

\* (int)x for a size_t or unsigned int x: the low 32 bits, two's complement
\* (implementation-defined in C, and this with gcc, clang and MSVC).
ToInt(w) ==
    LET h == w.hi % Half
    IN  IF h < Half \div 2 THEN h * Half + w.lo ELSE (h - Half) * Half + w.lo

\* a - b on ints.  A difference outside the int range is undefined behaviour:
\* the build wraps it around, or (-ftrapv, a sanitizer) stops the program.
IntSub(a, b) ==
    LET dl == ((a % Half) - (b % Half)) % Half
        dh == (a \div Half) - (b \div Half)
              + (((a % Half) - (b % Half)) \div Half)
        wh == ((dh + Half \div 2) % Half) - Half \div 2
    IN  IF dh = wh THEN {Ret(dh * Half + dl)}
        ELSE {Ret(wh * Half + dl), NoReturn}

\* memcmp(left, right, len) of libc, len > 0: zero for equal bytes, else
\* some value with the sign of the difference of the first differing bytes
\* (as unsigned char); the magnitude is the library's choice (glibc returns
\* -1, the byte difference or a difference of whole words, by the path taken).
memcmp(l, r, len) ==
    LET n == ScanLimit(l, r, len)
        d == FirstDiff(l, r, 0, n)
    IN  IF d >= n THEN Ret(0)
        ELSE IF ByteAt(l, d) < ByteAt(r, d) THEN RetSign(-1)
        ELSE RetSign(1)

\* What the scan of pbl_memcmplen yields once it has run off the end of the
\* buffers (lines 238-246), which is undefined behaviour.  The loop goes on
\* comparing the memory behind the two buffers: it leaves at the first
\* difference it meets there and returns i, the offset of that difference
\* modulo 2^32, as int, which can be any int; or it does not return (the
\* memory behind is unmapped, or equal for ever).
RunOff == {NoReturn, RetAny}

\* pbl_memcmplen(left, llen, right, rlen), lines 222-247.  The counter i is
\* an unsigned int compared with the size_t llen, and is returned as int.
\* With more than UINT_MAX equal leading bytes i wraps to 0 before it reaches
\* llen, stays below it, and the pointers run off the buffers.
pbl_memcmplen(l, llen, r, rlen) ==
    LET len == IF WLt(rlen, llen) THEN rlen ELSE llen
        n == ScanLimit(l, r, len)
        d == FirstDiff(l, r, 0, n)
    IN  IF d < n THEN {Ret(d)}
        ELSE IF len.hi < Half THEN {Ret(ToInt(len))}
        ELSE RunOff

\* pbl_memcmp(left, llen, right, rlen), lines 256-307.
pbl_memcmp(l, llen, r, rlen) ==
    IF WIsZero(llen)
    THEN (IF WIsZero(rlen) THEN {Ret(0)} ELSE {Ret(-1)})
    ELSE IF WIsZero(rlen) THEN {Ret(1)}
    ELSE LET len == IF WLe(llen, rlen) THEN llen ELSE rlen
             rc == memcmp(l, r, len)
         IN  IF rc # Ret(0) THEN {rc}
             ELSE IntSub(ToInt(llen), ToInt(rlen))

---------------------------------------------------------------------------
(* A caller of the buffer primitives.                                      *)

CmpBytes == {0, 1, 255}

RECURSIVE SeqsUpTo(_, _)
SeqsUpTo(S, n) ==
    IF n = 0 THEN {<<>>}
    ELSE SeqsUpTo(S, n - 1)
         \cup {Append(q, x) : q \in {p \in SeqsUpTo(S, n - 1) : Len(p) = n - 1},
                              x \in S}

\* 0, INT_MAX, INT_MAX + 1 and UINT_MAX + 1 zero bytes after the head.
Tails == {W(0, 0), W(Half \div 2 - 1, Half - 1), W(Half \div 2, 0), W(Half, 0)}

Buffers == {[head |-> h, tail |-> t] : h \in SeqsUpTo(CmpBytes, MaxHead), t \in Tails}

NoCall == [done |-> FALSE, ok |-> TRUE, kind |-> "value", rc |-> 0]
Called(o) == [done |-> TRUE, ok |-> o.ok, kind |-> o.kind, rc |-> o.rc]

\* rc = pbl_memcmp(left, llen, right, rlen)
Memcmp ==
    /\ \E o \in pbl_memcmp(left, BufLength(left), right, BufLength(right)) :
          cmp' = Called(o)
    /\ UNCHANGED <<left, right, rcmp, cmplen, codecVars, sizeVars, streamVars>>

\* rc = pbl_memcmp(right, rlen, left, llen)
MemcmpSwapped ==
    /\ \E o \in pbl_memcmp(right, BufLength(right), left, BufLength(left)) :
          rcmp' = Called(o)
    /\ UNCHANGED <<left, right, cmp, cmplen, codecVars, sizeVars, streamVars>>

\* rc = pbl_memcmplen(left, llen, right, rlen)
Memcmplen ==
    /\ \E o \in pbl_memcmplen(left, BufLength(left), right, BufLength(right)) :
          cmplen' = Called(o)
    /\ UNCHANGED <<left, right, cmp, rcmp, codecVars, sizeVars, streamVars>>

---------------------------------------------------------------------------
(* The specifications.                                                     *)

\* The caller's buffer: at least 5 bytes, of any content.
Prepared(lead, rest) == [i \in 0 .. BufLen - 1 |-> IF i = 0 THEN lead ELSE rest]

CodecIdle ==
    /\ enc = NoEnc
    /\ dec = NoDec
    /\ peek = NoPeek
    /\ size = NoSize
    /\ psize = NoSize

StreamIdle ==
    /\ woff = 0
    /\ written = <<>>
    /\ roff = 0
    /\ decoded = <<>>

CmpIdle ==
    /\ cmp = NoCall
    /\ rcmp = NoCall
    /\ cmplen = NoCall

EmptyBuffer == [head |-> <<>>, tail |-> W(0, 0)]

InitCodec ==
    /\ buffer \in {Prepared(lead, rest) : lead \in Byte, rest \in FillBytes}
    /\ CodecIdle
    /\ stream = [i \in 0 .. StreamCap - 1 |-> 0]
    /\ StreamIdle
    /\ left = EmptyBuffer
    /\ right = EmptyBuffer
    /\ CmpIdle

InitSize ==
    /\ buffer = Prepared(0, 0)
    /\ CodecIdle
    /\ stream = [i \in 0 .. StreamCap - 1 |-> 0]
    /\ StreamIdle
    /\ left = EmptyBuffer
    /\ right = EmptyBuffer
    /\ CmpIdle

InitStream ==
    /\ buffer = Prepared(0, 0)
    /\ CodecIdle
    /\ stream \in {[i \in 0 .. StreamCap - 1 |-> b] : b \in FillBytes}
    /\ StreamIdle
    /\ left = EmptyBuffer
    /\ right = EmptyBuffer
    /\ CmpIdle

InitCmp ==
    /\ buffer = Prepared(0, 0)
    /\ CodecIdle
    /\ stream = [i \in 0 .. StreamCap - 1 |-> 0]
    /\ StreamIdle
    /\ left \in Buffers
    /\ right \in Buffers
    /\ CmpIdle

NextCodec ==
    \/ \E v \in Values : Encode(v)
    \/ Decode
    \/ Peek
    \/ SizeOfEncoded

NextSize == \E v \in Values : Size(v)

NextStream ==
    \/ \E v \in StreamValues : StreamWrite(v)
    \/ StreamRead
    \/ StreamSkip

NextCmp ==
    \/ Memcmp
    \/ MemcmpSwapped
    \/ Memcmplen

SpecCodec == InitCodec /\ [][NextCodec]_vars
SpecSize == InitSize /\ [][NextSize]_vars
SpecStream == InitStream /\ [][NextStream]_vars
SpecCmp == InitCmp /\ [][NextCmp]_vars

---------------------------------------------------------------------------
(* The claims.                                                             *)

Sign(x) == IF x < 0 THEN -1 ELSE IF x > 0 THEN 1 ELSE 0

\* The sign of the int a call of pbl_memcmp returned.
SignOf(o) == IF o.kind = "sign" THEN o.rc ELSE Sign(o.rc)

\* C1: round trip.  Decoding the buffer pbl_LongToVarBuf filled for v yields
\* v, and pbl_VarBufToLong returns the byte count pbl_LongToVarBuf returned.
RoundTrip ==
    (enc.done /\ dec.done) => (dec.value = enc.value /\ dec.rc = enc.rc)

RoundTripWitness ==
    /\ enc.done /\ dec.done
    /\ enc.value = W(65535, 65535)
    /\ dec.value = W(65535, 65535)
    /\ dec.rc = 5

\* The width class of the table of spec section 4.1 a value lies in.
TableWidth(v) ==
    IF WLe(v, W(0, 127)) THEN 1
    ELSE IF WLe(W(0, 128), v) /\ WLe(v, W(0, 16383)) THEN 2
    ELSE IF WLe(W(0, 16384), v) /\ WLe(v, W(31, 65535)) THEN 3
    ELSE IF WLe(W(32, 0), v) /\ WLe(v, W(4095, 65535)) THEN 4
    ELSE 5

\* The value the bytes of buf after the first, up to index n - 1, state big
\* endian, below a leading part of hi.
RECURSIVE BigEndian(_, _, _, _)
BigEndian(buf, i, n, hi) ==
    IF i >= n THEN hi ELSE BigEndian(buf, i + 1, n, hi * 256 + buf[i])

\* C2: wire format.  pbl_LongToVarBuf returns the narrowest width of the
\* table; byte 0 carries the tag of that width (0xxxxxxx, 10xxxxxx, 110xxxxx,
\* 1110xxxx, or exactly 0xF0) with the value's high bits in its other bits,
\* and the bytes after it hold the lower bits big endian; 300 is encoded as
\* the two bytes 0x81 0x2C.
WireFormat ==
    enc.done =>
        /\ enc.rc = TableWidth(enc.value)
        /\ enc.rc = 1 => buffer[0] \in 0 .. 127
        /\ enc.rc = 2 => buffer[0] \in 128 .. 191
        /\ enc.rc = 3 => buffer[0] \in 192 .. 223
        /\ enc.rc = 4 => buffer[0] \in 224 .. 239
        /\ enc.rc = 5 => buffer[0] = 240
        /\ enc.rc \in 1 .. 4 =>
              enc.value =
                 WOf(BigEndian(buffer, 1, enc.rc,
                               buffer[0] - (256 - Pow2(9 - enc.rc))))
        /\ enc.rc = 5 =>
              enc.value = W(buffer[1] * 256 + buffer[2],
                            buffer[3] * 256 + buffer[4])
        /\ enc.value = W(0, 300) =>
              (enc.rc = 2 /\ buffer[0] = 129 /\ buffer[1] = 44)

WireFormatWitness ==
    /\ enc.done
    /\ enc.value = W(0, 300)
    /\ enc.rc = 2
    /\ buffer[0] = 129
    /\ buffer[1] = 44

\* C3: pbl_LongSize(v) is the number of bytes pbl_LongToVarBuf(buf, v)
\* returns.
SizeMatchesEncoder ==
    (enc.done /\ size.done /\ size.value = enc.value) => size.rc = enc.rc

SizeMatchesEncoderWitness ==
    /\ enc.done /\ size.done
    /\ size.value = enc.value
    /\ enc.value = W(32, 0)
    /\ size.rc = 4

\* C4: on a buffer pbl_LongToVarBuf produced, pbl_VarBufSize returns the byte
\* count pbl_VarBufToLong returns, and it reads the first byte only.
PeekMatchesDecoder ==
    (enc.done /\ peek.done) =>
        /\ peek.loaded = {0}
        /\ dec.done => peek.rc = dec.rc

PeekMatchesDecoderWitness ==
    /\ enc.done /\ peek.done /\ dec.done
    /\ enc.rc = 4
    /\ peek.rc = 4
    /\ dec.rc = 4

\* C8: width monotonicity.  For v <= w, pbl_LongSize(v) <= pbl_LongSize(w);
\* the width changes from v to v + 1 only at a breakpoint, and it is 1, 2,
\* 2, 3, 3, 4, 4, 5 at 0x7F, 0x80, 0x3FFF, 0x4000, 0x1FFFFF, 0x200000,
\* 0x0FFFFFFF, 0x10000000.
WidthMonotone ==
    /\ (size.done /\ psize.done /\ WLe(psize.value, size.value))
          => psize.rc <= size.rc
    /\ (size.done /\ psize.done /\ size.value = WAddInt(psize.value, 1)
        /\ psize.rc # size.rc)
          => psize.value \in {W(0, 127), W(0, 16383), W(31, 65535),
                              W(4095, 65535)}
    /\ size.done =>
          /\ size.value = W(0, 127) => size.rc = 1
          /\ size.value = W(0, 128) => size.rc = 2
          /\ size.value = W(0, 16383) => size.rc = 2
          /\ size.value = W(0, 16384) => size.rc = 3
          /\ size.value = W(31, 65535) => size.rc = 3
          /\ size.value = W(32, 0) => size.rc = 4
          /\ size.value = W(4095, 65535) => size.rc = 4
          /\ size.value = W(4096, 0) => size.rc = 5

WidthMonotoneWitness ==
    /\ size.done /\ psize.done
    /\ psize.value = W(4095, 65535)
    /\ size.value = W(4096, 0)
    /\ psize.rc = 4
    /\ size.rc = 5

\* C9: self-delimiting stream.  Reading (or skipping) from offset 0 and
\* advancing by the return value recovers the values written back to back, in
\* order, and ends at the number of bytes written.
StreamRecovered ==
    /\ Len(decoded) <= Len(written)
    /\ roff <= woff
    /\ \A i \in 1 .. Len(decoded) :
          decoded[i].skipped \/ decoded[i].value = written[i]
    /\ (Len(decoded) = Len(written)) <=> (roff = woff)

StreamRecoveredWitness ==
    /\ Len(written) = 3
    /\ Len(decoded) = 3
    /\ roff = woff
    /\ woff = 1 + 5 + 3
    /\ decoded[1] = Got(written[1])
    /\ decoded[2] = Skipped
    /\ decoded[3] = Got(written[3])

\* C10: bounded buffer access.  pbl_LongToVarBuf writes exactly the indices
\* 0 .. rc-1, rc <= 5, and leaves the other bytes as they were; for every
\* leading byte pbl_VarBufToLong reads only the indices 0 .. rc-1 and
\* pbl_VarBufSize only index 0; neither decoder modifies the buffer.
BoundedAccess ==
    /\ [](enc.done =>
            /\ enc.rc <= 5
            /\ enc.stored = 0 .. enc.rc - 1
            /\ \A i \in DOMAIN buffer :
                  i \notin 0 .. enc.rc - 1 => buffer[i] = enc.pre[i])
    /\ [](dec.done => (dec.loaded \subseteq 0 .. dec.rc - 1 /\ dec.rc <= 5))
    /\ [](peek.done => peek.loaded \subseteq {0})
    /\ [][((dec'.done /\ dec' # dec) \/ (peek'.done /\ peek' # peek))
              => buffer' = buffer]_vars

BoundedAccessWitness ==
    /\ enc.done /\ dec.done /\ peek.done
    /\ enc.rc = 2
    /\ enc.pre[2] = 255
    /\ buffer[2] = 255
    /\ dec.loaded = {0, 1}

\* The order of two buffers as byte sequences in which the end of a buffer
\* sorts below every byte: -1, 0 or 1.
Differing(l, r) ==
    {i \in 0 .. HeadSpan(l, r) - 1 :
        /\ WLt(WOf(i), BufLength(l))
        /\ WLt(WOf(i), BufLength(r))
        /\ ByteAt(l, i) # ByteAt(r, i)}

FirstOf(S) == CHOOSE i \in S : \A j \in S : i <= j

LexOrder(l, r) ==
    IF Differing(l, r) # {}
    THEN Sign(ByteAt(l, FirstOf(Differing(l, r)))
              - ByteAt(r, FirstOf(Differing(l, r))))
    ELSE IF BufLength(l) = BufLength(r) THEN 0
    ELSE IF WLt(BufLength(l), BufLength(r)) THEN -1
    ELSE 1

\* The number of leading bytes two buffers share.
CommonPrefix(l, r) ==
    IF Differing(l, r) # {} THEN WOf(FirstOf(Differing(l, r)))
    ELSE IF WLe(BufLength(l), BufLength(r)) THEN BufLength(l)
    ELSE BufLength(r)

\* C5: the sign of pbl_memcmp(left, llen, right, rlen) is the sign of the
\* lexicographic order of the two buffers, for buffers of every length.
MemcmpIsLexicographic ==
    (cmp.done /\ cmp.ok) =>
        (cmp.kind # "any" /\ SignOf(cmp) = LexOrder(left, right))

\* C6: pbl_memcmp(a, b) and pbl_memcmp(b, a) have opposite signs or are both
\* 0, and pbl_memcmp(a, a) is 0.
MemcmpAntisymmetric ==
    /\ (cmp.done /\ cmp.ok /\ rcmp.done /\ rcmp.ok)
          => (cmp.kind # "any" /\ rcmp.kind # "any"
              /\ SignOf(cmp) + SignOf(rcmp) = 0)
    /\ (cmp.done /\ cmp.ok /\ left = right) => cmp = Called(Ret(0))

\* C7: pbl_memcmplen terminates and returns the largest n <= min(llen, rlen)
\* with left[i] = right[i] for all i < n.  (A call that may return any int
\* does not return that n: it is not bound to.)
MemcmplenIsCommonPrefix ==
    cmplen.done =>
        /\ cmplen.ok
        /\ cmplen.kind = "value"
        /\ cmplen.rc >= 0
        /\ WOf(cmplen.rc) = CommonPrefix(left, right)

=============================================================================
